---- MODULE Spec2Model ----
(***************************************************************************)
(* Model of iborder.js: the smooth-corner path generator                   *)
(* (generateiOSRoundedRectPath), the CSS length parser (parseCSSLength)    *)
(* and the two paint worklets ('iborder' fill, 'iborder-s' inner stroke).  *)
(*                                                                         *)
(* JavaScript numbers are modelled as exact fixed-point integers counting  *)
(* 1/Unit of a pixel.  Unit = 4 * CoefDen, so that halving a half-pixel     *)
(* value twice and multiplying it by a four-decimal corner coefficient are *)
(* exact.  Values that may be NaN are records [nan, v].                    *)
(***************************************************************************)
EXTENDS Integers, Sequences, FiniteSets

VARIABLES
    pc,       \* the function or paint callback that ran last (or is about to run)
    args,     \* its arguments
    ret,      \* its return value and locals
    ctx,      \* the drawing surface: styles, line width, origin translation
    last,     \* the latest fill / stroke issued on the surface
    ncalls,   \* number of fill / stroke calls issued on the surface
    paints    \* number of paint invocations made on the surface

vars == <<pc, args, ret, ctx, last, ncalls, paints>>

\* ---------------------------------------------------------------- bounds
MaxW == 3          \* largest width / height of a direct path call, in pixels
MaxR == 8          \* largest requested radius of a direct path call, in half pixels
MaxLen == 3        \* longest property string handed to parseCSSLength
MaxNum == 3        \* largest numeric property magnitude, in half pixels
MaxSize == 2       \* largest element width / height of a paint call, in pixels
MaxStroke == 3     \* largest typed --iborder-width of a paint call, in half pixels
MaxPaints == 2     \* paint invocations made on one drawing surface

\* ---------------------------------------------------------------- numbers
CoefDen == 10000
Unit == 4 * CoefDen
Half == Unit \div 2

\* A JavaScript number that may be NaN.
JSNum(v) == [nan |-> FALSE, v |-> v]
NaN == [nan |-> TRUE, v |-> 0]
isNaN(value) == value.nan

None == [kind |-> "none"]

Min(a, b) == IF a <= b THEN a ELSE b
Max(a, b) == IF a >= b THEN a ELSE b

\* r * 0.65, r * 0.475, ... : the coefficients in ten-thousandths
K065 == 6500
K0475 == 4750
K00681 == 681
K03413 == 3413
K01280 == 1280
K02237 == 2237

Scale(r, k) == (r * k) \div CoefDen

\* ---------------------------------------------------------------- path commands
\* The returned string is a list of SVG path commands; each is kept as its
\* letter and its numeric operands in the order they are written.
Cmd(op, pts) == [op |-> op, pts |-> pts]

MoveTo(x, y) == Cmd("M", <<x, y>>)
CurveTo(x1, y1, x2, y2, x, y) == Cmd("C", <<x1, y1, x2, y2, x, y>>)
HLineTo(x) == Cmd("H", <<x>>)
VLineTo(y) == Cmd("V", <<y>>)
ClosePath == Cmd("Z", <<>>)

\* ---------------------------------------------------------------- generateiOSRoundedRectPath
\* Slips of the clamp: no floor at 0, no halving of the dimensions, no ceiling.
MutRadiusNoFloor(width, height, radius) ==
    Min(radius, Min(width \div 2, height \div 2))

MutRadiusNoHalving(width, height, radius) ==
    Max(0, Min(radius, Min(width, height)))

MutRadiusNoCeiling(width, height, radius) ==
    Max(0, radius)

EffectiveRadius(width, height, radius) ==
    LET maxRadius == Min(width \div 2, height \div 2)
    IN  Max(0, Min(radius, maxRadius))

SimpleRect(width, height) ==
    <<MoveTo(0, 0), HLineTo(width), VLineTo(height), HLineTo(0), ClosePath>>

\* Slip: the top-left corner drawn with two curves instead of three.
MutTopLeftTwoCurves(r) ==
    LET r065 == Scale(r, K065)
        r0475 == Scale(r, K0475)
        r00681 == Scale(r, K00681)
        r03413 == Scale(r, K03413)
    IN  << MoveTo(0, r),
           CurveTo(0, r065, 0, r0475, r00681, r03413),
           CurveTo(r0475, 0, r065, 0, r, 0) >>

TopLeft(r) ==
    LET r065 == Scale(r, K065)
        r0475 == Scale(r, K0475)
        r00681 == Scale(r, K00681)
        r03413 == Scale(r, K03413)
        r01280 == Scale(r, K01280)
        r02237 == Scale(r, K02237)
    IN  << MoveTo(0, r),
           CurveTo(0, r065, 0, r0475, r00681, r03413),
           CurveTo(r01280, r02237, r02237, r01280, r03413, r00681),
           CurveTo(r0475, 0, r065, 0, r, 0) >>

TopRight(width, r) ==
    LET r065 == Scale(r, K065)
        r0475 == Scale(r, K0475)
        r00681 == Scale(r, K00681)
        r03413 == Scale(r, K03413)
        r01280 == Scale(r, K01280)
        r02237 == Scale(r, K02237)
    IN  << HLineTo(width - r),
           CurveTo(width - r065, 0, width - r0475, 0, width - r03413, r00681),
           CurveTo(width - r02237, r01280, width - r01280, r02237, width - r00681, r03413),
           CurveTo(width, r0475, width, r065, width, r) >>

\* Slip: the right edge written as a horizontal instead of a vertical line.
MutBottomRightHForV(width, height, r) ==
    LET r065 == Scale(r, K065)
        r0475 == Scale(r, K0475)
        r00681 == Scale(r, K00681)
        r03413 == Scale(r, K03413)
        r01280 == Scale(r, K01280)
        r02237 == Scale(r, K02237)
    IN  << HLineTo(height - r),
           CurveTo(width, height - r065, width, height - r0475, width - r00681, height - r03413),
           CurveTo(width - r01280, height - r02237, width - r02237, height - r01280,
                   width - r03413, height - r00681),
           CurveTo(width - r0475, height, width - r065, height, width - r, height) >>

BottomRight(width, height, r) ==
    LET r065 == Scale(r, K065)
        r0475 == Scale(r, K0475)
        r00681 == Scale(r, K00681)
        r03413 == Scale(r, K03413)
        r01280 == Scale(r, K01280)
        r02237 == Scale(r, K02237)
    IN  << VLineTo(height - r),
           CurveTo(width, height - r065, width, height - r0475, width - r00681, height - r03413),
           CurveTo(width - r01280, height - r02237, width - r02237, height - r01280,
                   width - r03413, height - r00681),
           CurveTo(width - r0475, height, width - r065, height, width - r, height) >>

BottomLeft(height, r) ==
    LET r065 == Scale(r, K065)
        r0475 == Scale(r, K0475)
        r00681 == Scale(r, K00681)
        r03413 == Scale(r, K03413)
        r01280 == Scale(r, K01280)
        r02237 == Scale(r, K02237)
    IN  << HLineTo(r),
           CurveTo(r065, height, r0475, height, r03413, height - r00681),
           CurveTo(r02237, height - r01280, r01280, height - r02237, r00681, height - r03413),
           CurveTo(0, height - r0475, 0, height - r065, 0, height - r) >>

\* Slip: no early return for r = 0, the curve formulas are always evaluated.
MutPathNoEarlyReturn(width, height, radius) ==
    LET r == EffectiveRadius(width, height, radius)
    IN  TopLeft(r) \o TopRight(width, r) \o BottomRight(width, height, r)
            \o BottomLeft(height, r) \o <<ClosePath>>

generateiOSRoundedRectPath(width, height, radius) ==
    LET r == EffectiveRadius(width, height, radius)
    IN  IF r = 0
        THEN SimpleRect(width, height)
        ELSE TopLeft(r) \o TopRight(width, r) \o BottomRight(width, height, r)
                 \o BottomLeft(height, r) \o <<ClosePath>>

\* ---------------------------------------------------------------- property values
\* What props.get() hands over: nothing, a typed value (prop.value is a
\* number) or an unparsed value read through toString().
Absent == [kind |-> "absent", value |-> NaN, text |-> <<>>]
Typed(v) == [kind |-> "num", value |-> v, text |-> <<>>]
Unparsed(s) == [kind |-> "str", value |-> NaN, text |-> s]

Digits == {"0", "2", "5"}
Alphabet == Digits \cup {"-", ".", "p", " "}

DigitVal(c) == CASE c = "0" -> 0 [] c = "2" -> 2 [] c = "5" -> 5 [] OTHER -> 0

RECURSIVE Pow10(_)
Pow10(n) == IF n = 0 THEN 1 ELSE 10 * Pow10(n - 1)

\* Number of leading characters of s, from index i on, that lie in the set cs.
RECURSIVE Run(_, _, _)
Run(s, i, cs) == IF i <= Len(s) /\ s[i] \in cs THEN 1 + Run(s, i + 1, cs) ELSE 0

\* Decimal value of the n digits of s that start at index i.
RECURSIVE DigitsVal(_, _, _)
DigitsVal(s, i, n) ==
    IF n = 0 THEN 0 ELSE 10 * DigitsVal(s, i, n - 1) + DigitVal(s[i + n - 1])

\* parseFloat: skip leading white space, read an optional sign, digits, and an
\* optional point with digits; ignore the rest; NaN when no digit was read.
parseFloat(s) ==
    LET i0 == 1 + Run(s, 1, {" "})
        neg == i0 <= Len(s) /\ s[i0] = "-"
        i1 == IF neg THEN i0 + 1 ELSE i0
        ni == Run(s, i1, Digits)
        i2 == i1 + ni
        dot == i2 <= Len(s) /\ s[i2] = "."
        nf == IF dot THEN Run(s, i2 + 1, Digits) ELSE 0
        mag == DigitsVal(s, i1, ni) * Unit
                 + (DigitsVal(s, i2 + 1, nf) * Unit) \div Pow10(nf)
    IN  IF ni + nf = 0 THEN NaN
        ELSE IF neg THEN JSNum(-mag) ELSE JSNum(mag)

\* ---------------------------------------------------------------- parseCSSLength
\* Slip: a negative number treated like an unparseable one.
MutParseNegativeToDefault(prop, defaultValue) ==
    LET value == IF prop.kind = "absent" THEN JSNum(defaultValue)
                 ELSE IF prop.kind = "num" THEN prop.value
                 ELSE parseFloat(prop.text)
    IN  IF isNaN(value) \/ value.v < 0 THEN defaultValue ELSE value.v

parseCSSLength(prop, defaultValue) ==
    LET value == IF prop.kind = "absent" THEN JSNum(defaultValue)
                 ELSE IF prop.kind = "num" THEN prop.value
                 ELSE parseFloat(prop.text)
    IN  IF isNaN(value) THEN defaultValue ELSE Max(0, value.v)

DefaultRadius == 10 * Unit
DefaultStrokeWidth == 2 * Unit

\* ---------------------------------------------------------------- the drawing surface
FreshCtx == [fillStyle |-> "default", strokeStyle |-> "default",
             lineWidth |-> Unit, tx |-> 0, ty |-> 0]

\* A fill or stroke as the surface receives it: the path, and the surface
\* state in force when it is issued.
DrawCall(op, path, c) ==
    [kind |-> op, path |-> path, tx |-> c.tx, ty |-> c.ty,
     lineWidth |-> c.lineWidth,
     style |-> IF op = "fill" THEN c.fillStyle ELSE c.strokeStyle]

translate(c, dx, dy) == [c EXCEPT !.tx = c.tx + dx, !.ty = c.ty + dy]

\* ---------------------------------------------------------------- 'iborder' paint
\* One invocation on surface c: the surface it leaves, the drawing calls it
\* issues and its locals.
FillPaint(c, size, props) ==
    LET width == size.width
        height == size.height
        radius == parseCSSLength(props.radius, DefaultRadius)
        path == generateiOSRoundedRectPath(width, height, radius)
        c1 == [c EXCEPT !.fillStyle = "black"]
    IN  [ctx |-> c1,
         draws |-> <<DrawCall("fill", path, c1)>>,
         locals |-> [kind |-> "fill", radius |-> radius, strokeWidth |-> 0,
                     halfStroke |-> 0]]

\* ---------------------------------------------------------------- 'iborder-s' paint
\* Slip: no early return for a stroke width of zero.
MutStrokeNoEarlyReturn(c, size, props) ==
    LET width == size.width
        height == size.height
        strokeWidth == parseCSSLength(props.width, DefaultStrokeWidth)
        radius == parseCSSLength(props.radius, DefaultRadius)
        halfStroke == strokeWidth \div 2
        adjustedWidth == Max(0, width - strokeWidth)
        adjustedHeight == Max(0, height - strokeWidth)
        adjustedRadius == Max(0, radius - halfStroke)
        path == generateiOSRoundedRectPath(adjustedWidth, adjustedHeight, adjustedRadius)
        c1 == [c EXCEPT !.strokeStyle = "black", !.lineWidth = strokeWidth]
        c2 == translate(c1, halfStroke, halfStroke)
        locals == [kind |-> "stroke", radius |-> radius, strokeWidth |-> strokeWidth,
                   halfStroke |-> halfStroke]
    IN  [ctx |-> c2, draws |-> <<DrawCall("stroke", path, c2)>>, locals |-> locals]

StrokePaint(c, size, props) ==
    LET width == size.width
        height == size.height
        strokeWidth == parseCSSLength(props.width, DefaultStrokeWidth)
        radius == parseCSSLength(props.radius, DefaultRadius)
        halfStroke == strokeWidth \div 2
        adjustedWidth == Max(0, width - strokeWidth)
        adjustedHeight == Max(0, height - strokeWidth)
        adjustedRadius == Max(0, radius - halfStroke)
        path == generateiOSRoundedRectPath(adjustedWidth, adjustedHeight, adjustedRadius)
        c1 == [c EXCEPT !.strokeStyle = "black", !.lineWidth = strokeWidth]
        c2 == translate(c1, halfStroke, halfStroke)
        locals == [kind |-> "stroke", radius |-> radius, strokeWidth |-> strokeWidth,
                   halfStroke |-> halfStroke]
    IN  IF strokeWidth <= 0
        THEN [ctx |-> c, draws |-> <<>>, locals |-> locals]
        ELSE [ctx |-> c2, draws |-> <<DrawCall("stroke", path, c2)>>, locals |-> locals]

\* ---------------------------------------------------------------- paint invocations
Sizes == { [width |-> w * Unit, height |-> h * Unit] : w \in 0..MaxSize, h \in 0..MaxSize }

\* Values of --iborder-radius: missing (the default), negative, half a pixel, one pixel.
RadiusProps ==
    {Absent, Unparsed(<<"-", "2">>), Typed(JSNum(Half)), Typed(JSNum(Unit))}

\* Values of --iborder-width: missing, negative, zero and up to MaxStroke half pixels.
WidthProps ==
    {Absent, Unparsed(<<"-", "2", "p">>)}
        \cup {Typed(JSNum(k * Half)) : k \in 0..MaxStroke}

Init ==
    /\ pc = "idle"
    /\ args = None
    /\ ret = None
    /\ ctx = FreshCtx
    /\ last = None
    /\ ncalls = 0
    /\ paints = 0

\* The host invokes one paint callback; the outcome o is applied to the surface.
Invoke(name, size, props, o) ==
    /\ pc' = name
    /\ args' = [size |-> size, props |-> props]
    /\ ret' = o.locals
    /\ ctx' = o.ctx
    /\ last' = IF o.draws = <<>> THEN last ELSE o.draws[Len(o.draws)]
    /\ ncalls' = ncalls + Len(o.draws)
    /\ paints' = paints + 1

PaintFill ==
    /\ paints < MaxPaints
    /\ \E size \in Sizes, rp \in RadiusProps :
          LET props == [radius |-> rp, width |-> Absent]
          IN  Invoke("iborder", size, props, FillPaint(ctx, size, props))

PaintStroke ==
    /\ paints < MaxPaints
    /\ \E size \in Sizes, rp \in RadiusProps, wp \in WidthProps :
          LET props == [radius |-> rp, width |-> wp]
          IN  Invoke("iborder-s", size, props, StrokePaint(ctx, size, props))

Next == PaintFill \/ PaintStroke

Spec == Init /\ [][Next]_vars

\* ---------------------------------------------------------------- direct calls of the path generator
PathArgs ==
    { [width |-> w * Unit, height |-> h * Unit, radius |-> k * Half] :
        w \in 0..MaxW, h \in 0..MaxW, k \in (-2)..MaxR }

InitPath ==
    /\ pc = "generate"
    /\ args \in PathArgs
    /\ ret = None
    /\ ctx = FreshCtx
    /\ last = None
    /\ ncalls = 0
    /\ paints = 0

Generate ==
    /\ pc = "generate"
    /\ pc' = "generated"
    /\ ret' = [kind |-> "path",
               r |-> EffectiveRadius(args.width, args.height, args.radius),
               path |-> generateiOSRoundedRectPath(args.width, args.height, args.radius)]
    /\ UNCHANGED <<args, ctx, last, ncalls, paints>>

NextPath == Generate

SpecPath == InitPath /\ [][NextPath]_vars

\* ---------------------------------------------------------------- reading a path
\* The point reached after each command of a path (SVG path semantics:
\* H and V keep the other coordinate, Z returns to the subpath's start).
RECURSIVE Trace(_, _, _, _)
Trace(path, i, cur, start) ==
    IF i > Len(path) THEN <<>>
    ELSE LET c == path[i]
             nxt == CASE c.op = "M" -> <<c.pts[1], c.pts[2]>>
                      [] c.op = "C" -> <<c.pts[5], c.pts[6]>>
                      [] c.op = "H" -> <<c.pts[1], cur[2]>>
                      [] c.op = "V" -> <<cur[1], c.pts[1]>>
                      [] OTHER -> start
             st == IF c.op = "M" THEN nxt ELSE start
         IN  <<nxt>> \o Trace(path, i + 1, nxt, st)

EndPoints(path) == Trace(path, 1, <<0, 0>>, <<0, 0>>)

CountOp(path, ops) == Cardinality({i \in 1..Len(path) : path[i].op \in ops})

\* Every x operand and every y operand written in a path.
XCoords(path) ==
    UNION { CASE path[i].op = "M" -> {path[i].pts[1]}
              [] path[i].op = "C" -> {path[i].pts[1], path[i].pts[3], path[i].pts[5]}
              [] path[i].op = "H" -> {path[i].pts[1]}
              [] OTHER -> {} : i \in 1..Len(path) }

YCoords(path) ==
    UNION { CASE path[i].op = "M" -> {path[i].pts[2]}
              [] path[i].op = "C" -> {path[i].pts[2], path[i].pts[4], path[i].pts[6]}
              [] path[i].op = "V" -> {path[i].pts[1]}
              [] OTHER -> {} : i \in 1..Len(path) }

\* Indices of the commands that end a corner or an edge of a rounded contour.
CornerEnds == <<1, 4, 5, 8, 9, 12, 13, 16>>

\* Twice the signed area of a polygon, in half pixels squared; positive when
\* the polygon runs clockwise on a surface whose y axis points down.
SignedArea2(q) ==
    LET term(i) ==
            LET a == q[i]
                b == q[(i % Len(q)) + 1]
            IN  (a[1] \div Half) * (b[2] \div Half) - (b[1] \div Half) * (a[2] \div Half)
        sum[i \in 0..Len(q)] == IF i = 0 THEN 0 ELSE sum[i - 1] + term(i)
    IN  sum[Len(q)]

Generated == pc = "generated"

\* ---------------------------------------------------------------- claims on the path generator

\* C1: the effective radius is the requested radius clamped into
\* [0, min(width, height)/2]: 0 for radius <= 0, radius itself when in range,
\* min(width, height)/2 when larger.
C1_RadiusClamped ==
    Generated =>
        LET m == Min(args.width, args.height)
        IN  /\ 0 <= ret.r
            /\ 2 * ret.r <= m
            /\ (args.radius <= 0 => ret.r = 0)
            /\ (0 <= args.radius /\ 2 * args.radius <= m => ret.r = args.radius)
            /\ (2 * args.radius > m => 2 * ret.r = m)

C1_Witness ==
    /\ Generated
    /\ 2 * args.radius > Min(args.width, args.height)
    /\ ret.r > 0
    /\ ret.r < args.radius

\* C3 as stated: a rounded contour has exactly 8 curve commands, 4 line
\* commands and one close.
C3_EightCurvesFourLines ==
    Generated /\ ret.r > 0 =>
        /\ CountOp(ret.path, {"C"}) = 8
        /\ CountOp(ret.path, {"H", "V", "L"}) = 4
        /\ CountOp(ret.path, {"Z"}) = 1

\* C3 amended: a rounded contour has exactly 12 curve commands (3 per corner),
\* 3 line commands (H, V, H; the left edge is drawn by the close), one move
\* and one close, the close being last.
C3_TwelveCurvesThreeLines ==
    Generated /\ ret.r > 0 =>
        /\ CountOp(ret.path, {"C"}) = 12
        /\ CountOp(ret.path, {"H", "V", "L"}) = 3
        /\ CountOp(ret.path, {"Z"}) = 1
        /\ CountOp(ret.path, {"M"}) = 1
        /\ Len(ret.path) = 17
        /\ ret.path[17].op = "Z"
        /\ \A k \in 0..3 : \A j \in 2..4 : ret.path[4 * k + j].op = "C"

C3_Witness ==
    /\ Generated
    /\ ret.r > 0
    /\ 2 * ret.r < Min(args.width, args.height)

\* C4: with effective radius 0 (radius <= 0, or width = 0, or height = 0) the
\* result is exactly move (0,0), line (width,0), line (width,height),
\* line (0,height), close, and holds no curve command.
C4_TrivialRectangle ==
    Generated /\ (args.radius <= 0 \/ args.width = 0 \/ args.height = 0) =>
        /\ ret.r = 0
        /\ Len(ret.path) = 5
        /\ [i \in 1..5 |-> ret.path[i].op] = <<"M", "H", "V", "H", "Z">>
        /\ EndPoints(ret.path) = << <<0, 0>>, <<args.width, 0>>,
                                    <<args.width, args.height>>,
                                    <<0, args.height>>, <<0, 0>> >>
        /\ CountOp(ret.path, {"C"}) = 0

C4_Witness ==
    /\ Generated
    /\ args.radius > 0
    /\ args.width = 0
    /\ args.height > 0
    /\ Len(ret.path) = 5

\* C7: a rounded contour is one closed clockwise loop from (0, r): the corner
\* and edge segments end in order at (r,0), (width-r,0), (width,r),
\* (width,height-r), (width-r,height), (r,height), (0,height-r), and the close
\* returns to (0, r).
C7_ClosedClockwiseLoop ==
    Generated /\ ret.r > 0 =>
        LET e == EndPoints(ret.path)
            w == args.width
            h == args.height
            r == ret.r
            q == [i \in 1..8 |-> e[CornerEnds[i]]]
        IN  /\ Len(e) = 17
            /\ e[1] = <<0, r>>
            /\ e[4] = <<r, 0>>
            /\ e[5] = <<w - r, 0>>
            /\ e[8] = <<w, r>>
            /\ e[9] = <<w, h - r>>
            /\ e[12] = <<w - r, h>>
            /\ e[13] = <<r, h>>
            /\ e[16] = <<0, h - r>>
            /\ e[17] = e[1]
            /\ ret.path[17].op = "Z"
            /\ SignedArea2(q) > 0

C7_Witness ==
    /\ Generated
    /\ ret.r > 0
    /\ args.width # args.height
    /\ EndPoints(ret.path)[17] = <<0, ret.r>>

\* C8: with width = height > 0 and radius >= width/2 the radius clamps to
\* width/2 and every straight run between corner curves has length 0.
C8_PillHasNoStraightEdge ==
    Generated /\ args.width = args.height /\ args.width > 0
              /\ 2 * args.radius >= args.width =>
        LET e == EndPoints(ret.path)
        IN  /\ 2 * ret.r = args.width
            /\ CountOp(ret.path, {"C"}) > 0
            /\ \A i \in 2..Len(ret.path) :
                   ret.path[i].op \in {"H", "V", "Z"} => e[i] = e[i - 1]

C8_Witness ==
    /\ Generated
    /\ args.width = args.height
    /\ args.width > 0
    /\ 2 * args.radius > args.width
    /\ 2 * ret.r = args.width

\* C10: every coordinate written in the path (move point, line targets, curve
\* control and end points) has x in [0, width] and y in [0, height].
C10_CoordinatesInsideBox ==
    Generated =>
        /\ \A x \in XCoords(ret.path) : 0 <= x /\ x <= args.width
        /\ \A y \in YCoords(ret.path) : 0 <= y /\ y <= args.height

C10_Witness ==
    /\ Generated
    /\ ret.r > 0
    /\ args.radius > ret.r
    /\ Cardinality(XCoords(ret.path)) > 4

\* ---------------------------------------------------------------- direct calls of parseCSSLength
RECURSIVE Strings(_)
Strings(n) ==
    IF n = 0 THEN {<<>>}
    ELSE LET shorter == Strings(n - 1)
         IN  shorter \cup {Append(s, c) : s \in {t \in shorter : Len(t) = n - 1}, c \in Alphabet}

Props ==
    {Absent, Typed(NaN)}
        \cup {Typed(JSNum(k * Half)) : k \in (-MaxNum)..MaxNum}
        \cup {Unparsed(s) : s \in Strings(MaxLen)}

ParseArgs ==
    { [prop |-> p, defaultValue |-> d] :
        p \in Props, d \in {DefaultRadius, DefaultStrokeWidth} }

InitParse ==
    /\ pc = "parse"
    /\ args \in ParseArgs
    /\ ret = None
    /\ ctx = FreshCtx
    /\ last = None
    /\ ncalls = 0
    /\ paints = 0

Parse ==
    /\ pc = "parse"
    /\ pc' = "parsed"
    /\ ret' = [kind |-> "length", value |-> parseCSSLength(args.prop, args.defaultValue)]
    /\ UNCHANGED <<args, ctx, last, ncalls, paints>>

NextParse == Parse

SpecParse == InitParse /\ [][NextParse]_vars

Parsed == pc = "parsed"

\* ---------------------------------------------------------------- claims on parseCSSLength

\* C6: a typed value n >= 0 is returned unchanged; a string with a leading
\* number n >= 0 returns n; a negative typed or string number returns 0
\* (neither the negative value nor the default); an absent value or a string
\* with no leading number returns the default.
C6_UnparseableVersusNegative ==
    Parsed =>
        LET p == args.prop
            d == args.defaultValue
            n == IF p.kind = "num" THEN p.value ELSE parseFloat(p.text)
        IN  /\ (p.kind \in {"num", "str"} /\ ~n.nan /\ n.v >= 0 => ret.value = n.v)
            /\ (p.kind \in {"num", "str"} /\ ~n.nan /\ n.v < 0
                    => ret.value = 0 /\ ret.value # d)
            /\ (p.kind = "absent" \/ (p.kind = "str" /\ n.nan) => ret.value = d)
            /\ (p.text = <<"2", ".", "5">> => ret.value = 5 * Half)
            /\ (p.text = <<"5", "p">> => ret.value = 5 * Unit)
            /\ (p.text = <<"-", "5", "p">> => ret.value = 0)
            /\ (p.text = <<"-", ".", "5">> => ret.value = 0)
            /\ (p.text = <<"p", "5">> => ret.value = d)
            /\ (p.text = <<".">> => ret.value = d)
            /\ (p.text = <<"-">> => ret.value = d)

C6_Witness ==
    /\ Parsed
    /\ args.prop.text = <<"-", "5", "p">>
    /\ ret.value = 0
    /\ args.defaultValue = DefaultRadius

\* ---------------------------------------------------------------- claims on the paint callbacks

StrokeDrawn == pc = "iborder-s" /\ ret.strokeWidth > 0

\* A path whose operands all name one point has no length and leaves no ink.
HasExtent(path) == Cardinality(XCoords(path)) > 1 \/ Cardinality(YCoords(path)) > 1

\* C2: the ink of an inner stroke (the centerline path, shifted by
\* (halfStroke, halfStroke) and extended by halfStroke on each side) lies
\* within [0, width] x [0, height], also when strokeWidth exceeds width or height.
C2_StrokeInkInsideBounds ==
    StrokeDrawn /\ HasExtent(last.path) =>
        LET hs == ret.halfStroke
            ext == last.lineWidth \div 2
        IN  /\ \A x \in XCoords(last.path) :
                   0 <= x + hs - ext /\ x + hs + ext <= args.size.width
            /\ \A y \in YCoords(last.path) :
                   0 <= y + hs - ext /\ y + hs + ext <= args.size.height

\* C5: an 'iborder-s' paint whose resolved strokeWidth is <= 0 issues no
\* drawing call and leaves stroke style, line width and transform unchanged.
C5_ZeroStrokeDrawsNothing ==
    [][ (pc' = "iborder-s" /\ paints' = paints + 1 /\ ret'.strokeWidth <= 0)
            => (ncalls' = ncalls /\ ctx' = ctx /\ last' = last) ]_vars

C5_Witness ==
    /\ pc = "iborder-s"
    /\ ret.strokeWidth <= 0
    /\ paints = 2
    /\ ncalls = 1
    /\ last.kind = "stroke"
    /\ ctx.tx > 0

\* C9: paint invocations on one surface are independent: the surface's origin
\* at the start of every invocation is the one it had before the sequence,
\* and each invocation's ink lands where it would land on a fresh surface.
C9_PaintsIndependent ==
    /\ ctx.tx = FreshCtx.tx
    /\ ctx.ty = FreshCtx.ty
    /\ (StrokeDrawn =>
            LET own == StrokePaint(FreshCtx, args.size, args.props).draws[1]
            IN  last.path = own.path /\ last.tx = own.tx /\ last.ty = own.ty)
    /\ (pc = "iborder" =>
            LET own == FillPaint(FreshCtx, args.size, args.props).draws[1]
            IN  last.path = own.path /\ last.tx = own.tx /\ last.ty = own.ty)

====
